---- MODULE Spec2Model ----
(***************************************************************************)
(* PixelShelf client: the FollowButton component (optimistic follow-state  *)
(* coordinator) and the DashboardFeed component (multi-source feed with    *)
(* infinite scroll), modelled as state machines over React state, props    *)
(* and in-flight asynchronous requests.  One event handler (up to its      *)
(* first await) or one continuation after an await is one atomic action,   *)
(* as on the single-threaded UI event loop.                                *)
(***************************************************************************)
EXTENDS Integers, Sequences, FiniteSets, TLC

VARIABLES
    \* ---- shared: useSession() ----
    session,            \* NoSession or the id of the authenticated user
    \* ---- FollowButton ----
    userId,             \* prop userId (the target of the follow edge)
    initialIsFollowing, \* prop isFollowing
    hasOnFollowChange,  \* whether the optional prop onFollowChange was given
    isFollowing,        \* useState(initialIsFollowing)
    inflight,           \* handleFollow invocations awaiting mutateAsync
    \* ---- DashboardFeed ----
    tabs,               \* prop tabs: the ids of the tabs the feed offers
    activeTab,          \* useState(initialTab)
    infiniteScroll,     \* prop infiniteScroll
    searchQuery,        \* prop searchQuery
    selectedTags,       \* prop selectedTags
    selectedType,       \* prop selectedType
    q,                  \* state of the eight query hooks, by <<source, mode>>
    defaultViewMode,    \* prop defaultViewMode
    itemsPerRow,        \* prop itemsPerRow
    showSidecards,      \* prop showSidecards
    hasOnViewModeChange, \* whether the optional prop onViewModeChange was given
    viewMode,           \* useState(defaultViewMode)
    currentItemsPerRow, \* useState(itemsPerRow)
    showCurrentSidecards, \* useState(showSidecards)
    isRefreshing,       \* useState(false)
    refreshes,          \* refreshFeed invocations awaiting a refetch
    timers,             \* pending setTimeout(() => setIsRefreshing(false), 500)
    \* ---- ProfileSettingsPage ----
    name,               \* form value name, as a sequence of characters
    username,           \* form value username, as a sequence of characters
    bioLength,          \* length of the form value bio
    formErrors,         \* form.formState.errors: <<field, message>> pairs
    profileImage,       \* useState<File | null>(null)
    profileImagePreview, \* useState<string | undefined>(undefined)
    bannerImage,        \* useState<File | null>(null)
    bannerImagePreview, \* useState<string | undefined>(undefined)
    isUpdating,         \* useState(false)
    submits,            \* onSubmit invocations awaiting a collaborator call
    \* ---- trace of the last step ----
    effects,            \* calls made by the last step, in call order
    lastOp              \* name of the last step taken

followVars == <<userId, initialIsFollowing, hasOnFollowChange, isFollowing,
                inflight>>
feedProps == <<tabs, infiniteScroll, searchQuery, selectedTags, selectedType>>
viewProps == <<defaultViewMode, itemsPerRow, showSidecards, hasOnViewModeChange>>
viewVars == <<viewProps, viewMode, currentItemsPerRow, showCurrentSidecards>>
refreshVars == <<isRefreshing, refreshes, timers>>
feedVars == <<activeTab, feedProps, q, viewVars, refreshVars>>
traceVars == <<effects, lastOp>>
formVars == <<name, username, bioLength, formErrors>>
imageVars == <<profileImage, profileImagePreview, bannerImage,
               bannerImagePreview>>
profileVars == <<formVars, imageVars, isUpdating, submits>>
vars == <<session, followVars, feedVars, profileVars, traceVars>>

----------------------------------------------------------------------------
\* Values

NoSession == "none"
Users == {"u1", "u2"}
Sessions == Users \cup {NoSession}

\* Model bound: outstanding handleFollow invocations tracked at once.
MaxInflight == 2

BoolStr(b) == IF b THEN "true" ELSE "false"

\* One call made by a handler: <<callee, argument>>.
Eff(op, arg) == <<op, arg>>

Remove(s, i) == [j \in 1..(Len(s) - 1) |-> IF j < i THEN s[j] ELSE s[j + 1]]

----------------------------------------------------------------------------
\* FollowButton

\* followMutation.isPending / unfollowMutation.isPending: a mutation hook is
\* pending while one of its mutateAsync calls has not settled.
followMutationIsPending == \E i \in 1..Len(inflight) : inflight[i].kind = "follow"
unfollowMutationIsPending == \E i \in 1..Len(inflight) : inflight[i].kind = "unfollow"

\* A plausible slip: only one of the two mutations is tracked.
isLoading_FollowOnly == followMutationIsPending
isLoading == followMutationIsPending \/ unfollowMutationIsPending

\* A plausible slip: the self-follow guard is missing.
Rendered_NoSelfGuard == TRUE
\* if (session?.user?.id === userId) return null;
Rendered == ~(session # NoSession /\ session = userId)

\* <Button onClick={handleFollow} disabled={isLoading} {...props}>, for a
\* caller whose remaining props carry no `disabled` of their own.
ButtonEnabled == Rendered /\ ~isLoading

\* onFollowChange is optional: if (onFollowChange) onFollowChange(v)
NotifyFollowChange(v) ==
    IF hasOnFollowChange THEN <<Eff("onFollowChange", BoolStr(v))>> ELSE <<>>

\* catch block of handleFollow: the value the optimistic update is reverted to.
\* `m` is the invocation (its closure) whose mutation rejected.
RevertValue(m) == m.initialIsFollowing

\* A plausible slip: the two branches of handleFollow are swapped.
MutationKind_Swapped(b) == IF b THEN "follow" ELSE "unfollow"
\* The mutation a click issues for the displayed value b.
MutationKind(b) == IF b THEN "unfollow" ELSE "follow"

\* A plausible slip: the `return` after the redirect is missing, so the
\* handler goes on to the optimistic update and the mutation.
HandleFollowUnauthenticated_NoReturn ==
    /\ session = NoSession
    /\ Len(inflight) < MaxInflight
    /\ isFollowing' = ~isFollowing
    /\ inflight' = Append(inflight,
            [kind |-> IF isFollowing THEN "unfollow" ELSE "follow",
             userId |-> userId,
             actor |-> session,
             isFollowing |-> isFollowing,
             initialIsFollowing |-> initialIsFollowing])
    /\ effects' = <<Eff("toast.error", "Please sign in to follow users"),
                    Eff("router.push", "/login"),
                    Eff("setIsFollowing", BoolStr(~isFollowing)),
                    Eff(IF isFollowing THEN "unfollow" ELSE "follow", userId)>>

\* handleFollow with no session: toast + redirect, then return.
HandleFollowUnauthenticated ==
    /\ session = NoSession
    /\ effects' = <<Eff("toast.error", "Please sign in to follow users"),
                    Eff("router.push", "/login")>>
    /\ UNCHANGED <<isFollowing, inflight>>

\* handleFollow with a session, up to the await of mutateAsync.
HandleFollowAuthenticated ==
    /\ session # NoSession
    /\ Len(inflight) < MaxInflight
    /\ isFollowing' = ~isFollowing
    /\ inflight' = Append(inflight,
            [kind |-> MutationKind(isFollowing),
             userId |-> userId,
             actor |-> session,
             isFollowing |-> isFollowing,
             initialIsFollowing |-> initialIsFollowing])
    /\ effects' = <<Eff("setIsFollowing", BoolStr(~isFollowing))>>
                  \o NotifyFollowChange(~isFollowing)
                  \o <<Eff(MutationKind(isFollowing), userId)>>

\* A click on the rendered, enabled button runs handleFollow.
Click ==
    /\ ButtonEnabled
    /\ (HandleFollowUnauthenticated \/ HandleFollowAuthenticated)
    /\ lastOp' = "click"
    /\ UNCHANGED <<session, userId, initialIsFollowing, hasOnFollowChange>>
    /\ UNCHANGED <<feedVars, profileVars>>

\* mutateAsync resolved: the try block ends, nothing else runs.
MutationSucceeds(i) ==
    /\ i \in 1..Len(inflight)
    /\ inflight' = Remove(inflight, i)
    /\ effects' = <<>>
    /\ lastOp' = "resolved"
    /\ UNCHANGED <<session, userId, initialIsFollowing, hasOnFollowChange,
                   isFollowing>>
    /\ UNCHANGED <<feedVars, profileVars>>

\* mutateAsync rejected: the catch block runs.
MutationFails(i) ==
    /\ i \in 1..Len(inflight)
    /\ inflight' = Remove(inflight, i)
    /\ isFollowing' = RevertValue(inflight[i])
    /\ effects' = <<Eff("setIsFollowing", BoolStr(RevertValue(inflight[i])))>>
                  \o NotifyFollowChange(RevertValue(inflight[i]))
                  \o <<Eff("toast.error", "An error occurred")>>
    /\ lastOp' = "rejected"
    /\ UNCHANGED <<session, userId, initialIsFollowing, hasOnFollowChange>>
    /\ UNCHANGED <<feedVars, profileVars>>

\* A plausible slip: the effect writes the prop value of the render before.
SyncFromProps_Stale(v) == ~v

\* The value the prop-sync effect leaves in isFollowing after the parent
\* re-rendered the button with isFollowing = v.
SyncFromProps(v) == v

\* The parent supplies a new isFollowing prop; the effect with dependency
\* [initialIsFollowing] runs after that render.
PropChange ==
    /\ initialIsFollowing' = ~initialIsFollowing
    /\ isFollowing' = SyncFromProps(~initialIsFollowing)
    /\ effects' = <<Eff("setIsFollowing", BoolStr(isFollowing'))>>
    /\ lastOp' = "prop"
    /\ UNCHANGED <<session, userId, hasOnFollowChange, inflight>>
    /\ UNCHANGED <<feedVars, profileVars>>

\* useSession() reports a sign-in, a sign-out or another user.
SessionChange ==
    /\ \E s \in Sessions \ {session} : session' = s
    /\ effects' = <<>>
    /\ lastOp' = "session"
    /\ UNCHANGED followVars
    /\ UNCHANGED <<feedVars, profileVars>>

----------------------------------------------------------------------------
\* DashboardFeed: values

Sources == {"trending", "following", "assets", "creators"}
Modes == {"infinite", "paged"}
Hooks == Sources \X Modes

\* A tab identifier of a custom `tabs` prop that is none of the four sources.
UnknownTab == "bookmarks"
Tabs == Sources \cup {UnknownTab}

\* Values of the `tabs` prop the feed is exercised with: DEFAULT_TABS, an
\* explore page and a page with a custom tab.
TabConfigs ==
    {{"trending", "following"},
     {"assets", "creators"},
     {"trending", "assets", UnknownTab}}

Undefined == "undefined"
Null == "null"

\* Model bounds: pages the server holds for one query, and next-page requests
\* tracked at once for one query.
MaxPages == 3
MaxNextInFlight == 2

\* Prop values the feed is exercised with.
SearchQueries == {"", "pixel"}
TagLists == {<<>>, <<"2d">>, <<"3d", "2d">>}
TypeValues == {Null, "", "SPRITE"}

CurrentMode == IF infiniteScroll THEN "infinite" ELSE "paged"

----------------------------------------------------------------------------
\* DashboardFeed: options passed to the eight query hooks

\* search: activeTab === t ? searchQuery : undefined
SearchFor(t) == IF activeTab = t THEN searchQuery ELSE Undefined
\* tag: activeTab === t && selectedTags.length > 0 ? selectedTags[0] : undefined
TagFor(t) ==
    IF activeTab = t /\ Len(selectedTags) > 0 THEN selectedTags[1] ELSE Undefined
\* type: activeTab === t ? selectedType || undefined : undefined
TypeFor(t) ==
    IF activeTab = t
    THEN (IF selectedType = Null \/ selectedType = "" THEN Undefined
          ELSE selectedType)
    ELSE Undefined

\* A plausible slip: the filters are forwarded to every hook, active or not.
HookFilters_Unconditional(src, mode) ==
    [search |-> searchQuery,
     tag |-> IF Len(selectedTags) > 0 THEN selectedTags[1] ELSE Undefined,
     type |-> IF src = "creators" \/ selectedType = Null \/ selectedType = ""
              THEN Undefined ELSE selectedType]

\* The search / tag / type options of each hook call.  The creators hooks are
\* called without a type option.
HookFilters(src, mode) ==
    CASE <<src, mode>> = <<"trending", "infinite">> ->
            [search |-> SearchFor("trending"), tag |-> TagFor("trending"),
             type |-> TypeFor("trending")]
      [] <<src, mode>> = <<"following", "infinite">> ->
            [search |-> SearchFor("following"), tag |-> TagFor("following"),
             type |-> TypeFor("following")]
      [] <<src, mode>> = <<"assets", "infinite">> ->
            [search |-> SearchFor("assets"), tag |-> TagFor("assets"),
             type |-> TypeFor("assets")]
      [] <<src, mode>> = <<"creators", "infinite">> ->
            [search |-> SearchFor("creators"), tag |-> TagFor("creators"),
             type |-> Undefined]
      [] <<src, mode>> = <<"trending", "paged">> ->
            [search |-> SearchFor("trending"), tag |-> TagFor("trending"),
             type |-> TypeFor("trending")]
      [] <<src, mode>> = <<"following", "paged">> ->
            [search |-> SearchFor("following"), tag |-> TagFor("following"),
             type |-> TypeFor("following")]
      [] <<src, mode>> = <<"assets", "paged">> ->
            [search |-> SearchFor("assets"), tag |-> TagFor("assets"),
             type |-> TypeFor("assets")]
      [] <<src, mode>> = <<"creators", "paged">> ->
            [search |-> SearchFor("creators"), tag |-> TagFor("creators"),
             type |-> Undefined]

\* A plausible slip: the following hooks forget the session precondition.
HookEnabledFor_NoSessionCheck(src, mode, tab, sess, inf) ==
    tab = src /\ (inf <=> mode = "infinite")

\* The `enabled` option of each hook call, for active tab `tab`, session `sess`
\* and infiniteScroll `inf`.
HookEnabledFor(src, mode, tab, sess, inf) ==
    CASE <<src, mode>> = <<"trending", "infinite">> -> tab = "trending" /\ inf
      [] <<src, mode>> = <<"following", "infinite">> ->
            tab = "following" /\ sess # NoSession /\ inf
      [] <<src, mode>> = <<"assets", "infinite">> -> tab = "assets" /\ inf
      [] <<src, mode>> = <<"creators", "infinite">> -> tab = "creators" /\ inf
      [] <<src, mode>> = <<"trending", "paged">> -> tab = "trending" /\ ~inf
      [] <<src, mode>> = <<"following", "paged">> ->
            tab = "following" /\ sess # NoSession /\ ~inf
      [] <<src, mode>> = <<"assets", "paged">> -> tab = "assets" /\ ~inf
      [] <<src, mode>> = <<"creators", "paged">> -> tab = "creators" /\ ~inf

HookEnabled(src, mode) ==
    HookEnabledFor(src, mode, activeTab, session, infiniteScroll)

----------------------------------------------------------------------------
\* Query hooks (useInfiniteAssetsQuery, useAssetsQuery, useInfiniteCreatorsQuery,
\* useCreatorsQuery): the state one hook exposes.

IdleQuery ==
    [isLoading |-> FALSE, pages |-> 0, hasItems |-> FALSE, hasNext |-> FALSE,
     nextInFlight |-> 0, error |-> FALSE]

IsIdle(st) == st.pages = 0 /\ ~st.isLoading /\ ~st.error

\* An enabled query with nothing fetched starts fetching its first page; a
\* failed query is not retried by itself.
AutoFetch(qq, tab, sess, inf) ==
    [h \in Hooks |->
        IF HookEnabledFor(h[1], h[2], tab, sess, inf) /\ IsIdle(qq[h])
        THEN [qq[h] EXCEPT !.isLoading = TRUE]
        ELSE qq[h]]

\* fetchNextPage() / loadMore() of hook h: one more next-page request.
IssueNextPage(qq, h) ==
    [qq EXCEPT ![h].nextInFlight = qq[h].nextInFlight + 1]

\* The response of the first page.
FirstPageResult(st, outcome) ==
    CASE outcome = "error" -> [st EXCEPT !.isLoading = FALSE, !.error = TRUE]
      [] outcome = "empty" ->
            [st EXCEPT !.isLoading = FALSE, !.pages = 1, !.hasItems = FALSE,
                       !.hasNext = FALSE, !.error = FALSE]
      [] outcome = "last" ->
            [st EXCEPT !.isLoading = FALSE, !.pages = 1, !.hasItems = TRUE,
                       !.hasNext = FALSE, !.error = FALSE]
      [] outcome = "more" ->
            [st EXCEPT !.isLoading = FALSE, !.pages = 1, !.hasItems = TRUE,
                       !.hasNext = (1 < MaxPages), !.error = FALSE]

\* The response of a next page: appended on success; on failure the pages
\* already held are kept.
NextPageResult(st, outcome) ==
    CASE outcome = "error" ->
            [st EXCEPT !.nextInFlight = st.nextInFlight - 1, !.error = TRUE]
      [] outcome = "last" ->
            [st EXCEPT !.nextInFlight = st.nextInFlight - 1,
                       !.pages = st.pages + 1, !.hasNext = FALSE,
                       !.error = FALSE]
      [] outcome = "more" ->
            [st EXCEPT !.nextInFlight = st.nextInFlight - 1,
                       !.pages = st.pages + 1,
                       !.hasNext = (st.pages + 1 < MaxPages),
                       !.error = FALSE]

----------------------------------------------------------------------------
\* DashboardFeed: what the component reads from the hooks

\* hasNextPage / isFetchingNextPage of the infinite hook of a source
\* (trendingHasNextPage, isTrendingFetchingNextPage, ...).
hasNextPage(src) == q[<<src, "infinite">>].hasNext
\* A plausible slip: isLoading is destructured in place of isFetchingNextPage.
isFetchingNextPage_AsIsLoading(src) == q[<<src, "infinite">>].isLoading
isFetchingNextPage(src) == q[<<src, "infinite">>].nextInFlight > 0

\* hasMore / isLoadingMore of the paged hook of a source
\* (trendingHasMore, isTrendingLoadingMore, ...).
hasMoreOf(src) == q[<<src, "paged">>].hasNext
isLoadingMoreOf(src) == q[<<src, "paged">>].nextInFlight > 0

\* The source getTabData reads: the active tab's, trending for any other id.
TabSource ==
    CASE activeTab = "trending" -> "trending"
      [] activeTab = "following" -> "following"
      [] activeTab = "assets" -> "assets"
      [] activeTab = "creators" -> "creators"
      [] OTHER -> "trending"

\* A plausible slip: the paged branches read isLoadingMore from the infinite
\* hook of the source.
getTabData_MixedModes ==
    IF infiniteScroll
    THEN [hasData |-> q[<<TabSource, "infinite">>].hasItems,
          isLoading |-> q[<<TabSource, "infinite">>].isLoading,
          error |-> q[<<TabSource, "infinite">>].error,
          hasMore |-> hasNextPage(TabSource),
          isLoadingMore |-> isFetchingNextPage(TabSource),
          loadMore |-> <<TabSource, "infinite">>]
    ELSE [hasData |-> q[<<TabSource, "paged">>].hasItems,
          isLoading |-> q[<<TabSource, "paged">>].isLoading,
          error |-> q[<<TabSource, "paged">>].error,
          hasMore |-> hasMoreOf(TabSource),
          isLoadingMore |-> isFetchingNextPage(TabSource),
          loadMore |-> <<TabSource, "paged">>]

getTabData ==
    IF infiniteScroll
    THEN [hasData |-> q[<<TabSource, "infinite">>].hasItems,
          isLoading |-> q[<<TabSource, "infinite">>].isLoading,
          error |-> q[<<TabSource, "infinite">>].error,
          hasMore |-> hasNextPage(TabSource),
          isLoadingMore |-> isFetchingNextPage(TabSource),
          loadMore |-> <<TabSource, "infinite">>]
    ELSE [hasData |-> q[<<TabSource, "paged">>].hasItems,
          isLoading |-> q[<<TabSource, "paged">>].isLoading,
          error |-> q[<<TabSource, "paged">>].error,
          hasMore |-> hasMoreOf(TabSource),
          isLoadingMore |-> isLoadingMoreOf(TabSource),
          loadMore |-> <<TabSource, "paged">>]

\* A plausible slip: the default case fetches for trending, as getTabData's
\* default case reads trending.
fetchMoreForCurrentTab_DefaultTrending ==
    CASE activeTab \in {"following", "assets", "creators"} ->
            IF hasNextPage(activeTab) /\ ~isFetchingNextPage(activeTab)
            THEN {<<activeTab, "infinite">>} ELSE {}
      [] OTHER ->
            IF hasNextPage("trending") /\ ~isFetchingNextPage("trending")
            THEN {<<"trending", "infinite">>} ELSE {}

\* fetchMoreForCurrentTab: the hooks whose fetchNextPage it calls.
fetchMoreForCurrentTab ==
    CASE activeTab = "trending" ->
            IF hasNextPage("trending") /\ ~isFetchingNextPage("trending")
            THEN {<<"trending", "infinite">>} ELSE {}
      [] activeTab = "following" ->
            IF hasNextPage("following") /\ ~isFetchingNextPage("following")
            THEN {<<"following", "infinite">>} ELSE {}
      [] activeTab = "assets" ->
            IF hasNextPage("assets") /\ ~isFetchingNextPage("assets")
            THEN {<<"assets", "infinite">>} ELSE {}
      [] activeTab = "creators" ->
            IF hasNextPage("creators") /\ ~isFetchingNextPage("creators")
            THEN {<<"creators", "infinite">>} ELSE {}
      [] OTHER -> {}

\* fetchNextPage, the onIntersect callback.
fetchNextPage ==
    IF getTabData.hasMore /\ ~getTabData.isLoadingMore
    THEN fetchMoreForCurrentTab ELSE {}

\* useIntersectionObserver({enabled: infiniteScroll, skip: isLoadingMore}).
ObserverActive == infiniteScroll /\ ~getTabData.isLoadingMore

\* A plausible slip: the sign-in branch is left out.
TabContent_NoSignIn ==
    CASE getTabData.isLoading -> "loading"
      [] getTabData.error -> "error"
      [] ~getTabData.hasData -> "empty"
      [] OTHER -> "items"

\* A plausible slip: the items are tested before the error.
TabContent_ItemsBeforeError ==
    CASE activeTab = "following" /\ session = NoSession -> "signin"
      [] getTabData.isLoading -> "loading"
      [] getTabData.hasData -> "items"
      [] getTabData.error -> "error"
      [] OTHER -> "empty"

\* A plausible slip: the empty data is tested before the error.
TabContent_EmptyBeforeError ==
    CASE activeTab = "following" /\ session = NoSession -> "signin"
      [] getTabData.isLoading -> "loading"
      [] ~getTabData.hasData -> "empty"
      [] getTabData.error -> "error"
      [] OTHER -> "items"

\* What the active tab's TabsContent shows.
TabContent ==
    CASE activeTab = "following" /\ session = NoSession -> "signin"
      [] getTabData.isLoading -> "loading"
      [] getTabData.error -> "error"
      [] ~getTabData.hasData -> "empty"
      [] OTHER -> "items"

\* The manual Load More button: shown under the items of an asset tab in paged
\* mode while hasMore, disabled while isLoadingMore.
LoadMoreButtonEnabled ==
    /\ TabContent = "items"
    /\ activeTab # "creators"
    /\ getTabData.hasMore
    /\ ~infiniteScroll
    /\ ~getTabData.isLoadingMore

\* The item block of an asset tab ends with <div ref={loadMoreRef}> while
\* hasMore; the creators tab content has no such block.
SentinelRendered ==
    /\ TabContent = "items"
    /\ activeTab # "creators"
    /\ getTabData.hasMore

\* The end-of-feed message under the items of an asset tab:
\* !hasMore && !isLoading && data.length > 0.
EndOfFeedShown ==
    /\ TabContent = "items"
    /\ activeTab # "creators"
    /\ ~getTabData.hasMore
    /\ ~getTabData.isLoading
    /\ getTabData.hasData

----------------------------------------------------------------------------
\* DashboardFeed: view state

ViewModes == {"grid", "list"}
ItemsPerRowValues == {1, 2, 4, 5}

Min(a, b) == IF a < b THEN a ELSE b

ViewState ==
    [viewMode |-> viewMode, currentItemsPerRow |-> currentItemsPerRow,
     showCurrentSidecards |-> showCurrentSidecards]

\* The three useState initialisers.
InitialViewState(dvm, ipr, sc) ==
    [viewMode |-> dvm, currentItemsPerRow |-> ipr, showCurrentSidecards |-> sc]

\* The effect "Initialize viewMode and related states from props", run over
\* view state st with props dvm, ipr, sc.
InitViewEffect(st, dvm, ipr, sc) ==
    IF dvm = "list" /\ sc
    THEN [viewMode |-> dvm, currentItemsPerRow |-> 1,
          showCurrentSidecards |-> TRUE]
    ELSE IF dvm = "grid" /\ ~sc
    THEN [viewMode |-> dvm, currentItemsPerRow |-> ipr,
          showCurrentSidecards |-> FALSE]
    ELSE [st EXCEPT !.viewMode = dvm]

\* The view state after the first render and its effects.
MountedViewState(dvm, ipr, sc) ==
    InitViewEffect(InitialViewState(dvm, ipr, sc), dvm, ipr, sc)

\* A plausible slip: the layout coupling is applied without looking at the
\* showSidecards prop.
ViewAfterModeChange_AlwaysCoupled(mode) ==
    IF mode = "list"
    THEN [viewMode |-> mode, currentItemsPerRow |-> 1,
          showCurrentSidecards |-> TRUE]
    ELSE [viewMode |-> mode, currentItemsPerRow |-> 4,
          showCurrentSidecards |-> FALSE]

\* The state writes of handleViewModeChange(mode).
ViewAfterModeChange(mode) ==
    IF showSidecards
    THEN IF mode = "list"
         THEN [viewMode |-> mode, currentItemsPerRow |-> 1,
               showCurrentSidecards |-> TRUE]
         ELSE [viewMode |-> mode, currentItemsPerRow |-> 4,
               showCurrentSidecards |-> FALSE]
    ELSE [ViewState EXCEPT !.viewMode = mode]

\* A plausible slip: the medium breakpoint is not capped at three columns.
getGridClass_NoCap ==
    IF viewMode # "grid"
    THEN [class |-> "space-y-4", md |-> 0, lg |-> 0]
    ELSE IF currentItemsPerRow = 1
    THEN [class |-> "grid grid-cols-1 gap-6 max-w-2xl mx-auto",
          md |-> 1, lg |-> 1]
    ELSE IF showCurrentSidecards
    THEN [class |-> "grid grid-single-feed", md |-> 0, lg |-> 0]
    ELSE [class |-> "grid grid-cols-1 sm:grid-cols-2 md:grid-cols-{md} lg:grid-cols-{lg} gap-6",
          md |-> currentItemsPerRow, lg |-> currentItemsPerRow]

\* getGridClass: the class string, with the column counts it names at the
\* medium and large breakpoints (0 when the string names no column count).
getGridClass ==
    IF viewMode # "grid"
    THEN [class |-> "space-y-4", md |-> 0, lg |-> 0]
    ELSE IF currentItemsPerRow = 1
    THEN [class |-> "grid grid-cols-1 gap-6 max-w-2xl mx-auto",
          md |-> 1, lg |-> 1]
    ELSE IF showCurrentSidecards
    THEN [class |-> "grid grid-single-feed", md |-> 0, lg |-> 0]
    ELSE [class |-> "grid grid-cols-1 sm:grid-cols-2 md:grid-cols-{md} lg:grid-cols-{lg} gap-6",
          md |-> Min(currentItemsPerRow, 3), lg |-> currentItemsPerRow]

----------------------------------------------------------------------------
\* DashboardFeed: refresh

\* Model bound: refreshFeed invocations not yet finished (awaiting a refetch
\* or their 500 ms timer) tracked at once.
MaxRefreshes == 2

\* The hooks whose refetch one refreshFeed invocation awaits, in call order,
\* for the activeTab and infiniteScroll it closed over.  The 'creators' case
\* has no break and runs on into the default case.
RefreshTargets(tab, inf) ==
    LET mode == IF inf THEN "infinite" ELSE "paged" IN
    CASE tab = "trending" -> << <<"trending", mode>> >>
      [] tab = "following" -> << <<"following", mode>> >>
      [] tab = "assets" -> << <<"assets", mode>> >>
      [] tab = "creators" -> << <<"creators", mode>>, <<"trending", mode>> >>
      [] OTHER -> << <<"trending", mode>> >>

\* What a hook exposes once a refetch() has settled: a resolved refetch
\* replaces what the hook held by a fresh first page, or reports an error
\* beside the pages already held; a rejected one does the latter and throws.
RefetchResult(st, outcome) ==
    IF outcome \in {"error", "rejected"}
    THEN [st EXCEPT !.error = TRUE]
    ELSE FirstPageResult(st, outcome)

\* The Refresh button: disabled={isLoading || isRefreshing}.
RefreshButtonEnabled == ~(getTabData.isLoading \/ isRefreshing)

----------------------------------------------------------------------------
\* DashboardFeed: steps

FetchEffects(hs) ==
    IF hs = {} THEN <<>>
    ELSE LET h == CHOOSE x \in hs : TRUE IN <<Eff("fetchNextPage", h[1])>>

\* A click on the TabsTrigger of another tab: onValueChange={handleTabChange}.
handleTabChange(tab) ==
    /\ tab \in tabs \ {activeTab}
    /\ activeTab' = tab
    /\ q' = AutoFetch(q, tab, session, infiniteScroll)
    /\ effects' = <<>>
    /\ lastOp' = "tab"
    /\ UNCHANGED <<session, feedProps>>
    /\ UNCHANGED <<followVars, profileVars, viewVars, refreshVars>>

\* useSession() changes under a mounted feed.
FeedSessionChange ==
    /\ \E s \in Sessions \ {session} :
          /\ session' = s
          /\ q' = AutoFetch(q, activeTab, s, infiniteScroll)
    /\ effects' = <<>>
    /\ lastOp' = "session"
    /\ UNCHANGED <<activeTab, feedProps>>
    /\ UNCHANGED <<followVars, profileVars, viewVars, refreshVars>>

\* The observer reports that the sentinel it watches (loadMoreRef) intersects
\* the viewport, and onIntersect runs.
Intersect ==
    /\ ObserverActive
    /\ SentinelRendered
    /\ \A h \in fetchNextPage : q[h].nextInFlight < MaxNextInFlight
    /\ q' = [h \in Hooks |->
                IF h \in fetchNextPage
                THEN [q[h] EXCEPT !.nextInFlight = q[h].nextInFlight + 1]
                ELSE q[h]]
    /\ effects' = FetchEffects(fetchNextPage)
    /\ lastOp' = "intersect"
    /\ UNCHANGED <<session, activeTab, feedProps>>
    /\ UNCHANGED <<followVars, profileVars, viewVars, refreshVars>>

\* A click on Load More: onClick={() => loadMore()}.
LoadMoreClick ==
    /\ LoadMoreButtonEnabled
    /\ q[getTabData.loadMore].nextInFlight < MaxNextInFlight
    /\ q' = IssueNextPage(q, getTabData.loadMore)
    /\ effects' = <<Eff("loadMore", getTabData.loadMore[1])>>
    /\ lastOp' = "loadMore"
    /\ UNCHANGED <<session, activeTab, feedProps>>
    /\ UNCHANGED <<followVars, profileVars, viewVars, refreshVars>>

FirstPageArrives(h, outcome) ==
    /\ q[h].isLoading
    /\ q' = [q EXCEPT ![h] = FirstPageResult(q[h], outcome)]
    /\ effects' = <<>>
    /\ lastOp' = "firstPage"
    /\ UNCHANGED <<session, activeTab, feedProps>>
    /\ UNCHANGED <<followVars, profileVars, viewVars, refreshVars>>

NextPageArrives(h, outcome) ==
    /\ q[h].nextInFlight > 0
    /\ q' = [q EXCEPT ![h] = NextPageResult(q[h], outcome)]
    /\ effects' = <<>>
    /\ lastOp' = "nextPage"
    /\ UNCHANGED <<session, activeTab, feedProps>>
    /\ UNCHANGED <<followVars, profileVars, viewVars, refreshVars>>

\* The parent passes new searchQuery / selectedTags / selectedType: a query
\* whose options changed discards what it holds and, if enabled, starts over
\* from its first page.
FiltersChange(sq, tags, ty) ==
    /\ <<sq, tags, ty>> # <<searchQuery, selectedTags, selectedType>>
    /\ searchQuery' = sq
    /\ selectedTags' = tags
    /\ selectedType' = ty
    /\ q' = [h \in Hooks |->
                IF HookEnabled(h[1], h[2])
                THEN [IdleQuery EXCEPT !.isLoading = TRUE]
                ELSE q[h]]
    /\ effects' = <<>>
    /\ lastOp' = "filters"
    /\ UNCHANGED <<session, activeTab, tabs, infiniteScroll>>
    /\ UNCHANGED <<followVars, profileVars, viewVars, refreshVars>>

\* A click on the grid or the list button of the view controls.
handleViewModeChange(mode) ==
    /\ mode \in ViewModes
    /\ viewMode' = ViewAfterModeChange(mode).viewMode
    /\ currentItemsPerRow' = ViewAfterModeChange(mode).currentItemsPerRow
    /\ showCurrentSidecards' = ViewAfterModeChange(mode).showCurrentSidecards
    /\ effects' = IF hasOnViewModeChange
                  THEN <<Eff("onViewModeChange", mode)>> ELSE <<>>
    /\ lastOp' = "viewMode"
    /\ UNCHANGED profileVars
    /\ UNCHANGED <<session, followVars, activeTab, feedProps, q, viewProps,
                   refreshVars>>

\* The parent passes new defaultViewMode / itemsPerRow / showSidecards: the
\* effect that depends on them runs after the render.
ViewPropsChange(dvm, ipr, sc) ==
    /\ <<dvm, ipr, sc>> # <<defaultViewMode, itemsPerRow, showSidecards>>
    /\ defaultViewMode' = dvm
    /\ itemsPerRow' = ipr
    /\ showSidecards' = sc
    /\ viewMode' = InitViewEffect(ViewState, dvm, ipr, sc).viewMode
    /\ currentItemsPerRow' =
          InitViewEffect(ViewState, dvm, ipr, sc).currentItemsPerRow
    /\ showCurrentSidecards' =
          InitViewEffect(ViewState, dvm, ipr, sc).showCurrentSidecards
    /\ effects' = <<>>
    /\ lastOp' = "viewProps"
    /\ UNCHANGED profileVars
    /\ UNCHANGED <<session, followVars, activeTab, feedProps, q,
                   hasOnViewModeChange, refreshVars>>

\* refreshFeed up to its first await: setIsRefreshing(true), then the refetch
\* of the first hook of the switch.
refreshFeed ==
    /\ Len(refreshes) + timers < MaxRefreshes
    /\ isRefreshing' = TRUE
    /\ refreshes' = Append(refreshes,
                           [tab |-> activeTab, inf |-> infiniteScroll,
                            called |-> <<RefreshTargets(activeTab,
                                                        infiniteScroll)[1]>>])
    /\ effects' = <<Eff("setIsRefreshing", "true"),
                    Eff("refetch", RefreshTargets(activeTab, infiniteScroll)[1][1])>>
    /\ UNCHANGED profileVars
    /\ UNCHANGED <<session, followVars, activeTab, feedProps, q, viewVars,
                   timers>>

\* A click on the Refresh button: onClick={refreshFeed}.
RefreshClick ==
    /\ RefreshButtonEnabled
    /\ refreshFeed
    /\ lastOp' = "refresh"

\* A click on "Try again" of the error state: onRetry={refreshFeed}.
RetryClick ==
    /\ TabContent = "error"
    /\ refreshFeed
    /\ lastOp' = "retry"

\* The refetch awaited by the i-th refreshFeed invocation settles.  When it
\* resolves, the invocation goes on to the next refetch of its switch, if
\* any; otherwise, and when it rejects, the finally block arms the timer.  The
\* function has no catch: a rejection leaves it as an unhandled rejection.
RefetchSettles(i, outcome) ==
    /\ i \in 1..Len(refreshes)
    /\ LET r == refreshes[i]
           targets == RefreshTargets(r.tab, r.inf)
           k == Len(r.called)
           h == r.called[k]
       IN /\ q' = [q EXCEPT ![h] = RefetchResult(q[h], outcome)]
          /\ IF outcome = "rejected"
             THEN /\ refreshes' = Remove(refreshes, i)
                  /\ timers' = timers + 1
                  /\ effects' = <<Eff("setTimeout", "500"),
                                  Eff("unhandledrejection", "refreshFeed")>>
             ELSE IF k < Len(targets)
             THEN /\ refreshes' = [refreshes EXCEPT
                                     ![i].called = Append(r.called, targets[k + 1])]
                  /\ timers' = timers
                  /\ effects' = <<Eff("refetch", targets[k + 1][1])>>
             ELSE /\ refreshes' = Remove(refreshes, i)
                  /\ timers' = timers + 1
                  /\ effects' = <<Eff("setTimeout", "500")>>
    /\ lastOp' = "refetched"
    /\ UNCHANGED profileVars
    /\ UNCHANGED <<session, followVars, activeTab, feedProps, viewVars,
                   isRefreshing>>

\* A 500 ms timer armed by refreshFeed fires: setIsRefreshing(false).
RefreshTimerFires ==
    /\ timers > 0
    /\ timers' = timers - 1
    /\ isRefreshing' = FALSE
    /\ effects' = <<Eff("setIsRefreshing", "false")>>
    /\ lastOp' = "timer"
    /\ UNCHANGED profileVars
    /\ UNCHANGED <<session, followVars, activeTab, feedProps, q, viewVars,
                   refreshes>>

----------------------------------------------------------------------------
\* ProfileSettingsPage: values

\* Model alphabet: the characters the form values are made of.
Letters == {"J", "j", "o", "e"}
Digits == {"9"}

Names == {<<"J">>, <<"J", "o">>}
Usernames == {<<"j", "o">>, <<"j", "-", "e">>, <<"j", "_", "9">>}
BioLengths == {500, 501}

Files == {"avatar.png"}
BannerFiles == {"banner.png"}
OldImage == "https://cdn/old-avatar"
OldBanner == "https://cdn/old-banner"
\* reader.result of readAsDataURL(file)
DataUrl(file) ==
    IF file = "avatar.png" THEN "data:avatar.png" ELSE "data:banner.png"
\* uploadResult[0].ufsUrl of the upload of file
UfsUrl(file) ==
    IF file = "avatar.png" THEN "https://ufs/avatar.png"
    ELSE "https://ufs/banner.png"

\* Model bound: onSubmit invocations awaiting a call tracked at once.
MaxSubmits == 2

ToastNoSession == Eff("toast.error", "You must be signed in to update your profile")
ToastSuccess == Eff("toast.success", "Profile updated successfully!")
ToastUpdateFailed(err) ==
    Eff("toast.error",
        IF err = "ApiError" THEN "error.message"
        ELSE "Failed to update profile. Please try again.")

----------------------------------------------------------------------------
\* ProfileSettingsPage: validation

\* /^[a-zA-Z0-9_]+$/
MatchesUsernamePattern(u) ==
    /\ Len(u) >= 1
    /\ \A i \in 1..Len(u) : u[i] \in Letters \cup Digits \cup {"_"}

\* A plausible slip: the pattern of the username is not part of the schema.
ValidationErrors_NoPattern(n, u, b) ==
    (IF Len(n) < 2
     THEN {<<"name", "Name must be at least 2 characters">>} ELSE {})
    \cup (IF Len(u) < 3
          THEN {<<"username", "Username must be at least 3 characters">>}
          ELSE {})
    \cup (IF b > 500
          THEN {<<"bio", "Bio must be at most 500 characters">>} ELSE {})

\* profileSchema: the issues zod reports for name n, username u and a bio of
\* length b.
ValidationErrors(n, u, b) ==
    (IF Len(n) < 2
     THEN {<<"name", "Name must be at least 2 characters">>} ELSE {})
    \cup (IF Len(u) < 3
          THEN {<<"username", "Username must be at least 3 characters">>}
          ELSE {})
    \cup (IF ~MatchesUsernamePattern(u)
          THEN {<<"username",
                  "Username can only contain letters, numbers, and underscores">>}
          ELSE {})
    \cup (IF b > 500
          THEN {<<"bio", "Bio must be at most 500 characters">>} ELSE {})

----------------------------------------------------------------------------
\* ProfileSettingsPage: onSubmit

\* The page returns the sign-in screen instead of the form when there is no
\* session.
FormRendered == session # NoSession

\* A plausible slip: the Save buttons are not disabled while updating.
SaveEnabled_NoPendingTest == FormRendered

\* The two Save buttons: disabled={isUpdating}.
SaveEnabled == FormRendered /\ ~isUpdating

\* A plausible slip: the banner is uploaded first and the profile image
\* forgotten.
FirstAwait_BannerFirst(pi, bi) ==
    IF bi # Null THEN "bannerUpload"
    ELSE IF pi # Null THEN "profileUpload"
    ELSE "updateProfile"

\* The first call onSubmit awaits, for selected files pi and bi.
FirstAwait(pi, bi) ==
    IF pi # Null THEN "profileUpload"
    ELSE IF bi # Null THEN "bannerUpload"
    ELSE "updateProfile"

\* The call onSubmit awaits after the awaited call `step` has resolved; "done"
\* when it goes on to the success toast.
AwaitAfter(step, bi) ==
    CASE step = "profileUpload" ->
            IF bi # Null THEN "bannerUpload" ELSE "updateProfile"
      [] step = "bannerUpload" -> "updateProfile"
      [] step = "updateProfile" -> "update"
      [] step = "update" -> "done"

\* The call made when invocation sub reaches the await of `step`.
CallOf(step, sub) ==
    CASE step = "profileUpload" -> Eff("startProfileUpload", sub.profileImage)
      [] step = "bannerUpload" -> Eff("startBannerUpload", sub.bannerImage)
      [] step = "updateProfile" ->
            Eff("updateProfile",
                [data |-> sub.data, image |-> sub.profileImageUrl,
                 bannerImage |-> sub.bannerImageUrl])
      [] step = "update" -> Eff("update", "session")

\* A plausible slip: the success toast is shown from the catch block as well.
CatchEffects_WithSuccess(err) ==
    <<Eff("console.error", "Profile update error:"), ToastUpdateFailed(err),
      ToastSuccess>>

\* The calls of the catch block of onSubmit.
CatchEffects(err) ==
    <<Eff("console.error", "Profile update error:"), ToastUpdateFailed(err)>>

\* onSubmit(data) up to its first await, run under session sess with the
\* files and previews of the render it closed over: the invocation it leaves
\* awaiting (none when it returned) and the calls it made.
onSubmitEntry(sess, data, pi, pip, bi, bip) ==
    IF sess = NoSession
    THEN [subs |-> <<>>, effects |-> <<ToastNoSession>>]
    ELSE LET sub0 == [data |-> data, profileImage |-> pi, bannerImage |-> bi,
                      profileImageUrl |-> pip, bannerImageUrl |-> bip,
                      awaiting |-> FirstAwait(pi, bi), calls |-> <<>>]
             sub == [sub0 EXCEPT !.calls = <<CallOf(sub0.awaiting, sub0)>>]
         IN [subs |-> <<sub>>,
             effects |-> <<Eff("setIsUpdating", "true"),
                           CallOf(sub0.awaiting, sub0)>>]

----------------------------------------------------------------------------
\* ProfileSettingsPage: steps

\* The user edits the name, username or bio input.
EditForm(n, u, b) ==
    /\ FormRendered
    /\ <<n, u, b>> # <<name, username, bioLength>>
    /\ name' = n
    /\ username' = u
    /\ bioLength' = b
    /\ effects' = <<>>
    /\ lastOp' = "edit"
    /\ UNCHANGED <<session, followVars, feedVars, formErrors, imageVars,
                   isUpdating, submits>>

\* handleProfileImageChange(value): a File is kept as the selected file, a
\* string as the preview.
handleProfileImageChange(value) ==
    /\ FormRendered
    /\ value \notin {profileImage, profileImagePreview}
    /\ IF value \in Files
       THEN profileImage' = value /\ UNCHANGED profileImagePreview
       ELSE profileImagePreview' = value /\ UNCHANGED profileImage
    /\ effects' = <<>>
    /\ lastOp' = "profileImage"
    /\ UNCHANGED <<session, followVars, feedVars, formVars, bannerImage,
                   bannerImagePreview, isUpdating, submits>>

\* handleBannerImageChange(value): a File is kept as the selected file and,
\* once its FileReader has loaded, its data URL as the preview; a string is
\* kept as the preview.
handleBannerImageChange(value) ==
    /\ FormRendered
    /\ value \notin {bannerImage, bannerImagePreview}
    /\ IF value \in BannerFiles
       THEN bannerImage' = value /\ bannerImagePreview' = DataUrl(value)
       ELSE bannerImagePreview' = value /\ UNCHANGED bannerImage
    /\ effects' = <<>>
    /\ lastOp' = "bannerImage"
    /\ UNCHANGED <<session, followVars, feedVars, formVars, profileImage,
                   profileImagePreview, isUpdating, submits>>

\* A click on either Save button: form.handleSubmit(onSubmit) validates the
\* form values against profileSchema and runs onSubmit only when they pass;
\* otherwise it leaves the issues in formState.errors.
handleSubmit ==
    /\ SaveEnabled
    /\ Len(submits) < MaxSubmits
    /\ formErrors' = ValidationErrors(name, username, bioLength)
    /\ IF ValidationErrors(name, username, bioLength) # {}
       THEN /\ effects' = <<>>
            /\ UNCHANGED <<isUpdating, submits>>
       ELSE LET r == onSubmitEntry(session,
                                   [name |-> name, username |-> username,
                                    bioLength |-> bioLength],
                                   profileImage, profileImagePreview,
                                   bannerImage, bannerImagePreview)
            IN /\ effects' = r.effects
               /\ isUpdating' = IF r.subs # <<>> THEN TRUE ELSE isUpdating
               /\ submits' = submits \o r.subs
    /\ lastOp' = "submit"
    /\ UNCHANGED <<session, followVars, feedVars, name, username, bioLength,
                   imageVars>>

\* The call awaited by the i-th onSubmit invocation resolves.  An upload
\* resolves with a result ("url") or with none ("none"); the other calls
\* resolve with a value ("ok").  After the last one come router.refresh(),
\* the success toast and the finally block.  The reload of the form by the
\* fetchUserProfile effect once the session has changed is not one of these
\* steps.
SubmitAwaitResolves(i, result) ==
    /\ i \in 1..Len(submits)
    /\ LET sub == submits[i]
           step == sub.awaiting
           got == [sub EXCEPT
                     !.profileImageUrl =
                        IF step = "profileUpload" /\ result = "url"
                        THEN UfsUrl(sub.profileImage) ELSE @,
                     !.bannerImageUrl =
                        IF step = "bannerUpload" /\ result = "url"
                        THEN UfsUrl(sub.bannerImage) ELSE @]
           next == AwaitAfter(step, sub.bannerImage)
       IN /\ (result \in {"url", "none"}
                <=> step \in {"profileUpload", "bannerUpload"})
          /\ IF next = "done"
             THEN /\ submits' = Remove(submits, i)
                  /\ isUpdating' = FALSE
                  /\ effects' = <<Eff("router.refresh", ""), ToastSuccess,
                                  Eff("setIsUpdating", "false")>>
             ELSE /\ submits' = [submits EXCEPT
                                   ![i] = [got EXCEPT
                                             !.awaiting = next,
                                             !.calls = Append(sub.calls,
                                                              CallOf(next, got))]]
                  /\ effects' = <<CallOf(next, got)>>
                  /\ UNCHANGED isUpdating
    /\ lastOp' = "submitResolved"
    /\ UNCHANGED <<session, followVars, feedVars, formVars, imageVars>>

\* The call awaited by the i-th onSubmit invocation rejects, with an ApiError
\* or another error: the catch block and then the finally block run.
SubmitAwaitRejects(i, err) ==
    /\ i \in 1..Len(submits)
    /\ submits' = Remove(submits, i)
    /\ isUpdating' = FALSE
    /\ effects' = CatchEffects(err) \o <<Eff("setIsUpdating", "false")>>
    /\ lastOp' = "submitRejected"
    /\ UNCHANGED <<session, followVars, feedVars, formVars, imageVars>>

----------------------------------------------------------------------------
\* Initial states and specifications

FollowInit ==
    /\ session \in Sessions
    /\ userId \in Users
    /\ initialIsFollowing \in BOOLEAN
    /\ hasOnFollowChange \in BOOLEAN
    /\ isFollowing = initialIsFollowing
    /\ inflight = <<>>
    /\ effects = <<>>
    /\ lastOp = "init"

\* No DashboardFeed is mounted: no tabs, no query hooks; the props hold their
\* defaults (initialTab = 'trending', searchQuery = '', selectedTags = [],
\* selectedType = null, infiniteScroll = true).
FeedUnmounted ==
    /\ tabs = {}
    /\ activeTab = "trending"
    /\ infiniteScroll = TRUE
    /\ searchQuery = ""
    /\ selectedTags = <<>>
    /\ selectedType = Null
    /\ q = [h \in {} |-> IdleQuery]

\* A follow button with its props unchanged since it was mounted.
FollowDefault ==
    /\ userId = "u2"
    /\ initialIsFollowing = FALSE
    /\ hasOnFollowChange = FALSE
    /\ isFollowing = FALSE
    /\ inflight = <<>>

\* A feed after its first render, for any initial tab and either mode.
FeedInit ==
    /\ session \in Sessions
    /\ tabs \in TabConfigs
    /\ activeTab \in tabs
    /\ infiniteScroll \in BOOLEAN
    /\ searchQuery = ""
    /\ selectedTags = <<>>
    /\ selectedType = Null
    /\ q = AutoFetch([h \in Hooks |-> IdleQuery], activeTab, session,
                     infiniteScroll)
    /\ effects = <<>>
    /\ lastOp = "init"

\* A feed after its first render, for any filter props.
FiltersInit ==
    /\ session \in Sessions
    /\ tabs \in TabConfigs
    /\ activeTab \in tabs
    /\ infiniteScroll \in BOOLEAN
    /\ searchQuery \in SearchQueries
    /\ selectedTags \in TagLists
    /\ selectedType \in TypeValues
    /\ q = AutoFetch([h \in Hooks |-> IdleQuery], activeTab, session,
                     infiniteScroll)
    /\ effects = <<>>
    /\ lastOp = "init"

\* The view props hold their defaults (defaultViewMode = 'grid',
\* itemsPerRow = 4, showSidecards = false) and were never changed.
ViewDefault ==
    /\ defaultViewMode = "grid"
    /\ itemsPerRow = 4
    /\ showSidecards = FALSE
    /\ hasOnViewModeChange = FALSE
    /\ viewMode = "grid"
    /\ currentItemsPerRow = 4
    /\ showCurrentSidecards = FALSE

\* No refresh was ever started.
RefreshIdle ==
    /\ isRefreshing = FALSE
    /\ refreshes = <<>>
    /\ timers = 0

\* A feed after its first render, for any view props.
ViewInit ==
    /\ defaultViewMode \in ViewModes
    /\ itemsPerRow \in ItemsPerRowValues
    /\ showSidecards \in BOOLEAN
    /\ hasOnViewModeChange \in BOOLEAN
    /\ viewMode = MountedViewState(defaultViewMode, itemsPerRow,
                                   showSidecards).viewMode
    /\ currentItemsPerRow =
          MountedViewState(defaultViewMode, itemsPerRow,
                           showSidecards).currentItemsPerRow
    /\ showCurrentSidecards =
          MountedViewState(defaultViewMode, itemsPerRow,
                           showSidecards).showCurrentSidecards

\* The default feed (DEFAULT_TABS, initialTab = 'trending', infinite scroll)
\* after its first render, signed out.
FeedDefault ==
    /\ session = NoSession
    /\ tabs = {"trending", "following"}
    /\ activeTab = "trending"
    /\ infiniteScroll = TRUE
    /\ searchQuery = ""
    /\ selectedTags = <<>>
    /\ selectedType = Null
    /\ q = AutoFetch([h \in Hooks |-> IdleQuery], activeTab, session,
                     infiniteScroll)
    /\ effects = <<>>
    /\ lastOp = "init"

\* No profile settings page is mounted.
ProfileUnmounted ==
    /\ name = <<>>
    /\ username = <<>>
    /\ bioLength = 0
    /\ formErrors = {}
    /\ profileImage = Null
    /\ profileImagePreview = Undefined
    /\ bannerImage = Null
    /\ bannerImagePreview = Undefined
    /\ isUpdating = FALSE
    /\ submits = <<>>

\* The profile settings page once fetchUserProfile has filled the form: any
\* stored name, username and bio, with or without a stored profile image and
\* banner, no file selected.
ProfileInit ==
    /\ session \in Sessions
    /\ name \in Names
    /\ username \in Usernames
    /\ bioLength \in BioLengths
    /\ formErrors = {}
    /\ profileImage = Null
    /\ profileImagePreview \in {Undefined, OldImage}
    /\ bannerImage = Null
    /\ bannerImagePreview \in {Undefined, OldBanner}
    /\ isUpdating = FALSE
    /\ submits = <<>>
    /\ effects = <<>>
    /\ lastOp = "init"

\* ---- FollowButton ----
Init == FollowInit /\ FeedUnmounted /\ ViewDefault /\ RefreshIdle
        /\ ProfileUnmounted

Next ==
    \/ Click
    \/ \E i \in 1..MaxInflight : MutationSucceeds(i)
    \/ \E i \in 1..MaxInflight : MutationFails(i)
    \/ PropChange
    \/ SessionChange

Spec == Init /\ [][Next]_vars

\* ---- DashboardFeed: pagination ----
InitFeed == FeedInit /\ FollowDefault /\ ViewDefault /\ RefreshIdle
            /\ ProfileUnmounted

NextFeed ==
    \/ \E tab \in Tabs : handleTabChange(tab)
    \/ FeedSessionChange
    \/ Intersect
    \/ LoadMoreClick
    \/ \E h \in Hooks, o \in {"error", "empty", "last", "more"} :
          FirstPageArrives(h, o)
    \/ \E h \in Hooks, o \in {"error", "last", "more"} : NextPageArrives(h, o)

SpecFeed == InitFeed /\ [][NextFeed]_vars

\* ---- DashboardFeed: filter props ----
InitFilters == FiltersInit /\ FollowDefault /\ ViewDefault /\ RefreshIdle
               /\ ProfileUnmounted

NextFilters ==
    \/ \E tab \in Tabs : handleTabChange(tab)
    \/ FeedSessionChange
    \/ \E sq \in SearchQueries, tags \in TagLists, ty \in TypeValues :
          FiltersChange(sq, tags, ty)

SpecFilters == InitFilters /\ [][NextFilters]_vars

\* ---- DashboardFeed: view state ----
InitView == FeedDefault /\ FollowDefault /\ ViewInit /\ RefreshIdle
            /\ ProfileUnmounted

NextView ==
    \/ \E mode \in ViewModes : handleViewModeChange(mode)
    \/ \E dvm \in ViewModes, ipr \in ItemsPerRowValues, sc \in BOOLEAN :
          ViewPropsChange(dvm, ipr, sc)

SpecView == InitView /\ [][NextView]_vars

\* ---- DashboardFeed: refresh ----
InitRefresh == FeedInit /\ FollowDefault /\ ViewDefault /\ RefreshIdle
               /\ ProfileUnmounted

NextRefresh ==
    \/ \E tab \in Tabs : handleTabChange(tab)
    \/ \E h \in Hooks, o \in {"error", "last"} :
          FirstPageArrives(h, o)
    \/ RefreshClick
    \/ RetryClick
    \/ \E i \in 1..MaxRefreshes,
          o \in {"error", "rejected", "last"} :
          RefetchSettles(i, o)
    \/ RefreshTimerFires

SpecRefresh == InitRefresh /\ [][NextRefresh]_vars

\* ---- DashboardFeed: pagination failures and retries ----
\* The default tabs with the assets tab added, signed in.
InitRetry ==
    /\ FeedInit
    /\ session = "u1"
    /\ tabs = {"trending", "assets", UnknownTab}
    /\ FollowDefault /\ ViewDefault /\ RefreshIdle /\ ProfileUnmounted

NextRetry ==
    \/ \E tab \in Tabs : handleTabChange(tab)
    \/ Intersect
    \/ LoadMoreClick
    \/ \E h \in Hooks, o \in {"error", "more"} : FirstPageArrives(h, o)
    \/ \E h \in Hooks, o \in {"error", "more"} : NextPageArrives(h, o)
    \/ RefreshClick
    \/ RetryClick
    \/ \E i \in 1..MaxRefreshes, o \in {"error", "rejected", "more"} :
          RefetchSettles(i, o)
    \/ RefreshTimerFires

SpecRetry == InitRetry /\ [][NextRetry]_vars

\* ---- ProfileSettingsPage ----
InitProfile ==
    ProfileInit /\ FollowDefault /\ FeedUnmounted /\ ViewDefault /\ RefreshIdle

NextProfile ==
    \/ \E n \in Names, u \in Usernames, b \in BioLengths : EditForm(n, u, b)
    \/ \E v \in Files \cup {DataUrl("avatar.png")} :
          handleProfileImageChange(v)
    \/ \E v \in BannerFiles \cup {OldBanner} : handleBannerImageChange(v)
    \/ handleSubmit
    \/ \E i \in 1..MaxSubmits, r \in {"url", "none", "ok"} :
          SubmitAwaitResolves(i, r)
    \/ \E i \in 1..MaxSubmits, e \in {"ApiError", "Error"} :
          SubmitAwaitRejects(i, e)

SpecProfile == InitProfile /\ [][NextProfile]_vars

----------------------------------------------------------------------------
\* FollowButton properties

ToastSignIn == Eff("toast.error", "Please sign in to follow users")
ToastError == Eff("toast.error", "An error occurred")

\* C1: whenever a follow/unfollow mutation fails, the displayed isFollowing
\* returns to the value it held immediately before the optimistic flip of that
\* click, and an error notification is emitted.
C1_RollbackRestoresShownValue ==
    [][\A i \in 1..Len(inflight) :
          MutationFails(i) =>
              /\ isFollowing' = inflight[i].isFollowing
              /\ \E k \in 1..Len(effects') : effects'[k] = ToastError]_vars

\* C2: a change of the isFollowing prop while a follow/unfollow mutation is in
\* flight does not change the displayed isFollowing.
C2_NoResyncWhilePending ==
    [][(PropChange /\ isLoading) => isFollowing' = isFollowing]_vars

C4_UnauthenticatedClick ==
    [][(Click /\ session = NoSession) =>
          /\ inflight' = inflight
          /\ isFollowing' = isFollowing
          /\ effects' = <<ToastSignIn, Eff("router.push", "/login")>>]_vars

C4_Witness ==
    /\ lastOp = "click"
    /\ session = NoSession
    /\ hasOnFollowChange
    /\ effects = <<ToastSignIn, Eff("router.push", "/login")>>

\* C5: when userId equals the id of the authenticated user no control is
\* rendered (no click is possible), and no follow/unfollow mutation is ever
\* issued by a user against their own id.
C5_NoSelfFollow ==
    /\ (session # NoSession /\ session = userId) => ~ENABLED Click
    /\ \A i \in 1..Len(inflight) : inflight[i].actor # inflight[i].userId
    /\ \A k \in 1..Len(effects) :
          (lastOp = "click" /\ effects[k][1] \in {"follow", "unfollow"})
              => effects[k][2] # session

C5_Witness ==
    /\ session # NoSession
    /\ session = userId
    /\ Len(inflight) = 1

\* C6: an authenticated click while the displayed value is b flips the
\* displayed value to not-b before issuing the mutation, the mutation is follow
\* when b is false and unfollow when b is true, exactly one mutation is issued,
\* and the step in which a mutation succeeds leaves the displayed value as the
\* optimistic update (or a later prop sync) left it.
C6_OptimisticToggle ==
    [][/\ (Click /\ session # NoSession) =>
            /\ isFollowing' = ~isFollowing
            /\ effects'[1] = Eff("setIsFollowing", BoolStr(~isFollowing))
            /\ effects'[Len(effects')] =
                  Eff(IF isFollowing THEN "unfollow" ELSE "follow", userId)
            /\ \A k \in 1..(Len(effects') - 1) :
                  effects'[k][1] \notin {"follow", "unfollow"}
            /\ Len(inflight') = Len(inflight) + 1
            /\ inflight'[Len(inflight')].kind =
                  (IF isFollowing THEN "unfollow" ELSE "follow")
       /\ \A i \in 1..Len(inflight) :
            MutationSucceeds(i) => (isFollowing' = isFollowing /\ effects' = <<>>)
      ]_vars

C6_Witness ==
    /\ lastOp = "resolved"
    /\ isFollowing # initialIsFollowing
    /\ inflight = <<>>

\* C24: when no mutation is pending and the caller changes the isFollowing
\* prop, the displayed isFollowing becomes the new prop value, whatever local
\* value the button held before.
C24_ResyncWhenIdle ==
    [][(PropChange /\ ~isLoading) =>
          /\ initialIsFollowing' # initialIsFollowing
          /\ isFollowing' = initialIsFollowing']_vars

C24_Witness ==
    /\ lastOp = "prop"
    /\ session # NoSession
    /\ inflight = <<>>
    /\ initialIsFollowing
    /\ isFollowing
    /\ effects = <<Eff("setIsFollowing", "true")>>

----------------------------------------------------------------------------
\* DashboardFeed properties

\* C7: each of the eight query hooks is enabled if and only if its tab is the
\* active tab, its mode equals the infiniteScroll configuration and, for the
\* following source, a session is present; a query of the other mode is never
\* started.
C7_EnablementRule ==
    \A h \in Hooks :
        /\ HookEnabled(h[1], h[2]) <=>
              /\ activeTab = h[1]
              /\ (h[2] = "infinite" <=> infiniteScroll)
              /\ (h[1] = "following" => session # NoSession)
        /\ (h[2] # CurrentMode => q[h] = IdleQuery)
        /\ (q[h].isLoading => h[2] = CurrentMode)

C7_Witness ==
    /\ activeTab = "following"
    /\ session = NoSession
    /\ lastOp = "session"
    /\ \A h \in Hooks : ~HookEnabled(h[1], h[2])
    /\ q[<<"trending", CurrentMode>>].hasItems

\* C8 as stated: every source, when its tab is active, is given
\* search = searchQuery, tag = the first selected tag (none when there is none)
\* and type = selectedType (none when it is null or empty); when its tab is
\* not active it is given undefined for all three.
C8_FilterBindingAllSources ==
    \A h \in Hooks :
        HookFilters(h[1], h[2]) =
            IF activeTab = h[1]
            THEN [search |-> searchQuery,
                  tag |-> IF selectedTags = <<>> THEN Undefined
                          ELSE Head(selectedTags),
                  type |-> IF selectedType \in {Null, ""} THEN Undefined
                           ELSE selectedType]
            ELSE [search |-> Undefined, tag |-> Undefined, type |-> Undefined]

\* C8 (amended): as above, except that type is given to the trending,
\* following and assets sources only; the creators source is never given a
\* type.
C8_FilterBinding ==
    \A h \in Hooks :
        HookFilters(h[1], h[2]) =
            IF activeTab = h[1]
            THEN [search |-> searchQuery,
                  tag |-> IF selectedTags = <<>> THEN Undefined
                          ELSE Head(selectedTags),
                  type |-> IF h[1] = "creators" \/ selectedType \in {Null, ""}
                           THEN Undefined ELSE selectedType]
            ELSE [search |-> Undefined, tag |-> Undefined, type |-> Undefined]

C8_Witness ==
    /\ lastOp = "filters"
    /\ activeTab = "creators"
    /\ searchQuery = "pixel"
    /\ selectedTags = <<"3d", "2d">>
    /\ selectedType = "SPRITE"
    /\ HookFilters("creators", CurrentMode).tag = "3d"
    /\ HookFilters("assets", CurrentMode).search = Undefined

\* C9: at most one next-page fetch is in flight per query at any moment, a
\* next page is fetched only after the pages before it have been applied, and
\* fetchNextPage does nothing while isLoadingMore is true.
C9_OneNextPageFetchInFlight ==
    /\ \A h \in Hooks :
          /\ q[h].nextInFlight <= 1
          /\ (q[h].nextInFlight > 0 => (~q[h].isLoading /\ q[h].pages >= 1))
    /\ (getTabData.isLoadingMore => fetchNextPage = {})

C9_Witness ==
    /\ lastOp = "intersect"
    /\ \E h \in Hooks : q[h].nextInFlight = 1 /\ q[h].pages = 2
    /\ \E h \in Hooks : q[h].nextInFlight = 1 /\ h[1] # activeTab

\* C10: an intersection changes only the infinite query of the active tab's
\* source, by one next-page request, and only when that query reports a next
\* page; when hasMore is false, or the active tab is none of the four sources,
\* it issues no fetch.
C10_TriggerFetchesActiveSourceOnly ==
    /\ []((~getTabData.hasMore \/ activeTab \notin Sources)
            => fetchNextPage = {})
    /\ [][Intersect =>
            /\ \A h \in Hooks :
                  q'[h] # q[h] =>
                      /\ h = <<activeTab, "infinite">>
                      /\ q[h].hasNext
                      /\ q'[h] = [q[h] EXCEPT !.nextInFlight = 1]
            /\ (activeTab \notin Sources => q' = q)]_vars

C10_Witness ==
    /\ lastOp = "intersect"
    /\ effects = <<Eff("fetchNextPage", activeTab)>>
    /\ q[<<activeTab, "infinite">>].nextInFlight = 1

\* C11: every one of the four sources supports fetching further pages: when a
\* source is the active tab, shows at least one loaded item and reports
\* hasMore, a next-page fetch can be triggered, by the sentinel in infinite
\* mode and by the Load More button in paged mode.
C11_EverySourceFetchesFurtherPages ==
    (/\ activeTab \in Sources
     /\ TabContent = "items"
     /\ getTabData.hasMore
     /\ ~getTabData.isLoadingMore)
        => IF infiniteScroll
           THEN (ENABLED Intersect) /\ fetchNextPage # {}
           ELSE ENABLED LoadMoreClick

\* C12: getTabData returns hasData, isLoading, error, hasMore, isLoadingMore
\* and loadMore all from one query: the query of (activeTab, current mode)
\* when activeTab is one of the four sources, the trending query of the current
\* mode for any other id; no field comes from another query.
C12_TabDataFromOneQuery ==
    LET h == <<IF activeTab \in Sources THEN activeTab ELSE "trending",
               CurrentMode>>
    IN /\ getTabData.hasData = q[h].hasItems
       /\ getTabData.isLoading = q[h].isLoading
       /\ getTabData.error = q[h].error
       /\ getTabData.hasMore = q[h].hasNext
       /\ getTabData.isLoadingMore = (q[h].nextInFlight > 0)
       /\ getTabData.loadMore = h

C12_Witness ==
    /\ activeTab = UnknownTab
    /\ ~infiniteScroll
    /\ getTabData.hasData
    /\ getTabData.isLoadingMore
    /\ ~getTabData.isLoading
    /\ q[<<"assets", "paged">>].isLoading

\* C13: with the showSidecards prop true, for every configured itemsPerRow,
\* switching from grid to list sets the current itemsPerRow to 1 with
\* sidecards shown, and switching from list back to grid sets the current
\* itemsPerRow to the itemsPerRow prop and hides the sidecards.
C13_ViewModeCoupling ==
    [][\A mode \in ViewModes \ {viewMode} :
          (handleViewModeChange(mode) /\ showSidecards) =>
              /\ viewMode' = mode
              /\ (mode = "list" =>
                    (currentItemsPerRow' = 1 /\ showCurrentSidecards'))
              /\ (mode = "grid" =>
                    (currentItemsPerRow' = itemsPerRow
                        /\ ~showCurrentSidecards'))]_vars

\* C14: with the showSidecards prop false, handleViewModeChange changes only
\* viewMode and notifies onViewModeChange when it was given; the current
\* itemsPerRow and the current sidecards flag are left as they were.
C14_ToggleWithoutSidecards ==
    [][\A mode \in ViewModes :
          (handleViewModeChange(mode) /\ ~showSidecards) =>
              /\ viewMode' = mode
              /\ currentItemsPerRow' = currentItemsPerRow
              /\ showCurrentSidecards' = showCurrentSidecards
              /\ effects' = IF hasOnViewModeChange
                            THEN <<Eff("onViewModeChange", mode)>>
                            ELSE <<>>]_vars

C14_Witness ==
    /\ lastOp = "viewMode"
    /\ ~showSidecards
    /\ viewMode = "list"
    /\ currentItemsPerRow = 5
    /\ effects = <<Eff("onViewModeChange", "list")>>

\* C15: after any change of defaultViewMode, itemsPerRow or showSidecards the
\* view mode, the current itemsPerRow and the current sidecards flag are all
\* what a feed mounted with the new props has, for every combination of
\* defaultViewMode and showSidecards: nothing is carried over.
C15_ViewStateReinitialized ==
    [][\A dvm \in ViewModes, ipr \in ItemsPerRowValues, sc \in BOOLEAN :
          ViewPropsChange(dvm, ipr, sc) =>
              /\ viewMode' = MountedViewState(dvm, ipr, sc).viewMode
              /\ currentItemsPerRow' =
                    MountedViewState(dvm, ipr, sc).currentItemsPerRow
              /\ showCurrentSidecards' =
                    MountedViewState(dvm, ipr, sc).showCurrentSidecards]_vars

\* C16: getGridClass returns the vertical list layout whenever viewMode is
\* list, whatever the current itemsPerRow; in grid mode without sidecards the
\* layout has min(itemsPerRow, 3) columns at the medium breakpoint and
\* itemsPerRow columns at the large one.
C16_GridClassWithoutSidecards ==
    /\ viewMode = "list" =>
          getGridClass = [class |-> "space-y-4", md |-> 0, lg |-> 0]
    /\ (viewMode = "grid" /\ ~showCurrentSidecards) =>
          /\ getGridClass.md = Min(currentItemsPerRow, 3)
          /\ getGridClass.lg = currentItemsPerRow

C16_Witness ==
    /\ lastOp = "viewProps"
    /\ viewMode = "grid"
    /\ ~showCurrentSidecards
    /\ currentItemsPerRow = 5
    /\ getGridClass.md = 3
    /\ getGridClass.lg = 5

\* C17: in every reachable state with viewMode grid and the sidecards shown,
\* getGridClass returns the fixed single-column-with-sidecard layout, for every
\* value of the current itemsPerRow.
C17_GridClassWithSidecards ==
    (viewMode = "grid" /\ showCurrentSidecards) =>
        getGridClass = [class |-> "grid grid-single-feed", md |-> 0, lg |-> 0]

\* C18: one invocation of refreshFeed with activeTab X calls refetch on one
\* query only, the query of source X (trending for an id that is none of the
\* four sources) in the current mode.
C18_RefreshRefetchesOneQuery ==
    \A i \in 1..Len(refreshes) :
        refreshes[i].called =
            << <<IF refreshes[i].tab \in Sources THEN refreshes[i].tab
                 ELSE "trending",
                 IF refreshes[i].inf THEN "infinite" ELSE "paged">> >>

\* C19: no handler ends with an unhandled rejection: the rejection of an
\* awaited collaborator call is caught in the handler that made the call.
C19_NoUnhandledRejection ==
    \A k \in 1..Len(effects) : effects[k][1] # "unhandledrejection"

FetchStarted(h) ==
    \/ q'[h].isLoading /\ ~q[h].isLoading
    \/ q'[h].nextInFlight > q[h].nextInFlight
    \/ /\ Len(refreshes') > Len(refreshes)
       /\ refreshes'[Len(refreshes')].called[1] = h
    \/ \E i \in 1..Len(refreshes) :
          /\ Len(refreshes') = Len(refreshes)
          /\ Len(refreshes'[i].called) > Len(refreshes[i].called)
          /\ refreshes'[i].called[Len(refreshes'[i].called)] = h

C26_TabContentPriority ==
    /\ TabContent =
          (IF activeTab = "following" /\ session = NoSession THEN "signin"
           ELSE IF getTabData.isLoading THEN "loading"
           ELSE IF getTabData.error THEN "error"
           ELSE IF ~getTabData.hasData THEN "empty"
           ELSE "items")
    /\ (/\ getTabData.error
        /\ ~getTabData.isLoading
        /\ ~(activeTab = "following" /\ session = NoSession)) =>
          /\ TabContent = "error"
          /\ ~SentinelRendered
          /\ ~EndOfFeedShown
          /\ ~LoadMoreButtonEnabled
    /\ ~(EndOfFeedShown /\ SentinelRendered)

C26_Witness ==
    /\ getTabData.error
    /\ getTabData.hasData
    /\ getTabData.hasMore
    /\ ~getTabData.isLoading
    /\ activeTab = "trending"
    /\ TabContent = "error"
    /\ lastOp = "nextPage"

C29_RefreshesNeverOverlap ==
    /\ [](isRefreshing => Len(refreshes) + timers > 0)
    /\ [][(RefreshClick \/ RetryClick) =>
            (~isRefreshing /\ refreshes = <<>> /\ timers = 0)]_vars

----------------------------------------------------------------------------
\* ProfileSettingsPage properties

\* C22: when a call awaited by onSubmit (an image upload, updateProfile or
\* the session update) fails, the step that handles the failure leaves the
\* form values, the selected profile and banner files and their previews as
\* they were, shows an error notification and no success notification; no
\* earlier step of the submission changed them or showed a success
\* notification either.
C22_FailureKeepsForm ==
    /\ [][\A i \in 1..MaxSubmits :
            (\E e \in {"ApiError", "Error"} : SubmitAwaitRejects(i, e)) =>
               /\ UNCHANGED <<name, username, bioLength, imageVars>>
               /\ \E k \in 1..Len(effects') : effects'[k][1] = "toast.error"
               /\ \A k \in 1..Len(effects') : effects'[k][1] # "toast.success"
               /\ \A k \in 1..Len(submits[i].calls) :
                     submits[i].calls[k][1] # "toast.success"]_vars
    /\ [][(\E i \in 1..MaxSubmits, r \in {"url", "none", "ok"} :
             SubmitAwaitResolves(i, r)) =>
            UNCHANGED <<name, username, bioLength, imageVars>>]_vars
    /\ [][handleSubmit =>
            UNCHANGED <<name, username, bioLength, imageVars>>]_vars

C22_Witness ==
    /\ lastOp = "submitRejected"
    /\ \E k \in 1..Len(effects) : effects[k][1] = "toast.error"
    /\ profileImage # Null
    /\ bannerImage # Null
    /\ profileImagePreview = OldImage
    /\ ValidationErrors(name, username, bioLength) = {}

\* C23: onSubmit never runs with a name shorter than 2 characters, a username
\* shorter than 3 characters or holding a character other than a letter, a
\* digit or the underscore, or a bio longer than 500 characters; a Save click
\* on such values starts nothing and leaves a message on every offending
\* field, and on no other.
C23_ValidationBlocksSubmission ==
    /\ [](\A i \in 1..Len(submits) :
            LET d == submits[i].data
            IN /\ Len(d.name) >= 2
               /\ Len(d.username) >= 3
               /\ \A k \in 1..Len(d.username) :
                     d.username[k] \in Letters \cup Digits \cup {"_"}
               /\ d.bioLength <= 500)
    /\ [][handleSubmit =>
            LET badName == Len(name) < 2
                badUsername ==
                    \/ Len(username) < 3
                    \/ \E k \in 1..Len(username) :
                          username[k] \notin Letters \cup Digits \cup {"_"}
                badBio == bioLength > 500
            IN /\ (badName \/ badUsername \/ badBio) =>
                     /\ submits' = submits
                     /\ isUpdating' = isUpdating
                     /\ effects' = <<>>
               /\ {e[1] : e \in formErrors'} =
                     {f \in {"name", "username", "bio"} :
                        \/ f = "name" /\ badName
                        \/ f = "username" /\ badUsername
                        \/ f = "bio" /\ badBio}]_vars

C23_Witness ==
    /\ lastOp = "submit"
    /\ name = <<"J", "o">>
    /\ username = <<"j", "-", "e">>
    /\ bioLength = 500
    /\ {e[1] : e \in formErrors} = {"username"}
    /\ submits = <<>>
    /\ effects = <<>>

\* C25: isUpdating is true from the start of an authenticated onSubmit until
\* that onSubmit ends and false once it has ended, whether it succeeded or
\* failed at any step; a Save click runs only while isUpdating is false, so
\* two submissions are never in flight together.
C25_OneSubmissionAtATime ==
    /\ [](isUpdating <=> submits # <<>>)
    /\ [](Len(submits) <= 1)
    /\ [][handleSubmit => ~isUpdating]_vars
    /\ [][Len(submits') < Len(submits) => ~isUpdating']_vars
    /\ [][Len(submits') > Len(submits) => isUpdating']_vars

C25_Witness ==
    /\ lastOp = "submitRejected"
    /\ ~isUpdating
    /\ submits = <<>>
    /\ SaveEnabled

\* C28: the calls of one onSubmit are made in this order: the profile image
\* upload if a profile file is selected, the banner upload if a banner file
\* is selected, updateProfile, the session update; the success toast comes
\* only after the session update resolved; after a failed call the
\* submission makes no further call; with no session onSubmit makes no call
\* but the error toast; an upload that returns no result leaves the URL to be
\* sent to updateProfile at the preview URL the submission started with.
C28_SubmitStepOrder ==
    /\ [](\A i \in 1..Len(submits) :
            LET sub == submits[i]
                expected ==
                    (IF sub.profileImage # Null
                     THEN <<"startProfileUpload">> ELSE <<>>)
                    \o (IF sub.bannerImage # Null
                        THEN <<"startBannerUpload">> ELSE <<>>)
                    \o <<"updateProfile", "update">>
                made == [k \in 1..Len(sub.calls) |-> sub.calls[k][1]]
            IN /\ Len(made) \in 1..Len(expected)
               /\ made = SubSeq(expected, 1, Len(made))
               /\ made[Len(made)] = "updateProfile" =>
                     /\ sub.calls[Len(made)][2].image = sub.profileImageUrl
                     /\ sub.calls[Len(made)][2].bannerImage = sub.bannerImageUrl
                     /\ sub.calls[Len(made)][2].data = sub.data)
    /\ [][(\E k \in 1..Len(effects') : effects'[k][1] = "toast.success") =>
            \E i \in 1..Len(submits) :
               /\ submits[i].awaiting = "update"
               /\ submits' = Remove(submits, i)
               /\ lastOp' = "submitResolved"]_vars
    /\ [][\A i \in 1..MaxSubmits :
            (\E e \in {"ApiError", "Error"} : SubmitAwaitRejects(i, e)) =>
               /\ submits' = Remove(submits, i)
               /\ \A k \in 1..Len(effects') :
                     effects'[k][1] \in {"console.error", "toast.error",
                                         "setIsUpdating"}]_vars
    /\ [][\A i \in 1..MaxSubmits :
            (SubmitAwaitResolves(i, "none") /\ Len(submits') = Len(submits)) =>
               /\ submits'[i].profileImageUrl = submits[i].profileImageUrl
               /\ submits'[i].bannerImageUrl = submits[i].bannerImageUrl]_vars
    /\ [][(handleSubmit /\ Len(submits') > Len(submits)) =>
            /\ session # NoSession
            /\ submits'[Len(submits')].profileImageUrl = profileImagePreview
            /\ submits'[Len(submits')].bannerImageUrl = bannerImagePreview
            /\ submits'[Len(submits')].profileImage = profileImage
            /\ submits'[Len(submits')].bannerImage = bannerImage]_vars
    /\ [](\A pi \in Files \cup {Null}, bi \in BannerFiles \cup {Null} :
            LET r == onSubmitEntry(NoSession,
                                   [name |-> name, username |-> username,
                                    bioLength |-> bioLength],
                                   pi, profileImagePreview,
                                   bi, bannerImagePreview)
            IN r.subs = <<>> /\ r.effects = <<ToastNoSession>>)

C28_Witness ==
    \E i \in 1..Len(submits) :
       /\ submits[i].awaiting = "update"
       /\ Len(submits[i].calls) = 4
       /\ submits[i].profileImage # Null
       /\ submits[i].profileImageUrl = OldImage
       /\ submits[i].bannerImageUrl = UfsUrl(submits[i].bannerImage)

====
